---- MODULE Spec2Model ----
(***************************************************************************)
(* codex.py: a documentation generator.  process_project walks a project   *)
(* directory, parse_file extracts one record per documented declaration,   *)
(* generate_html groups the records by file for the sidebar.               *)
(*                                                                         *)
(* Three specifications share the module:                                  *)
(*   SpecParse  one call of parse_file on a bounded source file            *)
(*   SpecHtml   one call of generate_html on a bounded record list         *)
(*   Spec       one run of process_project on a bounded file system        *)
(***************************************************************************)
EXTENDS Integers, Sequences, FiniteSets, TLC

\* ------------------------------------------------------------------ bounds
\* Nodes of a syntax tree, the root Module node included.
MaxNodes == 4
\* Files of the project's file system.
MaxFiles == 3
\* Records handed to generate_html in SpecHtml.
MaxDocs == 3

\* ------------------------------------------------------------ state
VARIABLES
    \* SpecParse: the argument of parse_file, its position, what it returned
    p_path, p_src, p_pc, p_out,
    \* SpecHtml: the argument of generate_html, its position, the page built
    h_docs, h_pc, h_page,
    \* Spec: process_project
    fs,             \* the file system under project_path: a set of file paths
    walk,           \* os.walk's pending directories, next first
    walked,         \* directories os.walk has yielded, in order
    cur_root,       \* `root` of the current os.walk item
    cur_files,      \* files of the current item the inner loop has not reached
    all_docstrings, \* list all_docstrings
    skipped_files,  \* list skipped_files
    parsed,         \* history: the calls of parse_file, in order
    renders,        \* history: the calls of generate_html (their argument, page)
    reported,       \* history: the skipped-file lists printed
    pc

parseVars == <<p_path, p_src, p_pc, p_out>>
htmlVars == <<h_docs, h_pc, h_page>>
projVars == <<fs, walk, walked, cur_root, cur_files, all_docstrings,
              skipped_files, parsed, renders, reported, pc>>
vars == <<parseVars, htmlVars, projVars>>

\* ------------------------------------------------------------ helpers
Range(s) == {s[i] : i \in 1..Len(s)}

Min(a, b) == IF a < b THEN a ELSE b

RECURSIVE Flatten(_)
Flatten(ss) == IF ss = <<>> THEN <<>> ELSE Head(ss) \o Flatten(Tail(ss))

IsPrefix(s, t) == Len(s) <= Len(t) /\ SubSeq(t, 1, Len(s)) = s

\* Python's list[a:b] for 0 <= a, 0 <= b (0-based, b exclusive, clamped).
Slice(s, a, b) == SubSeq(s, a + 1, Min(b, Len(s)))

\* ------------------------------------------------------------ strings
\* A string is a sequence of characters.
Whitespace == {" "}

RECURSIVE lstrip(_)
lstrip(s) ==
    IF s # <<>> /\ Head(s) \in Whitespace THEN lstrip(Tail(s)) ELSE s

RECURSIVE rstrip(_)
rstrip(s) ==
    IF s # <<>> /\ s[Len(s)] \in Whitespace
    THEN rstrip(SubSeq(s, 1, Len(s) - 1)) ELSE s

\* str.strip()
strip(s) == rstrip(lstrip(s))

\* str.endswith(suffix)
endswith(s, suffix) ==
    /\ Len(s) >= Len(suffix)
    /\ SubSeq(s, Len(s) - Len(suffix) + 1, Len(s)) = suffix

\* str.replace(old, ""): every non-overlapping occurrence of old, scanning
\* from the left, is removed.
RECURSIVE remove_all(_, _)
remove_all(s, old) ==
    IF Len(s) < Len(old) THEN s
    ELSE IF SubSeq(s, 1, Len(old)) = old
         THEN remove_all(SubSeq(s, Len(old) + 1, Len(s)), old)
         ELSE <<Head(s)>> \o remove_all(Tail(s), old)

DotPy == <<".", "p", "y">>

\* ------------------------------------------------------------ syntax tree
\* What ast.parse returns: the nodes in source order (node 1 is the Module
\* root; a node's descendants follow it directly), each with its parent, its
\* class and what ast.get_docstring gives for it: <<>> for None, <<text>> for
\* a string.  Node i > 1 starts on source line i - 1 and ends on the last
\* line of its last descendant; the Module node has no lineno and no
\* end_lineno of its own.
DeclKinds == {"Module", "ClassDef", "FunctionDef", "AsyncFunctionDef"}

None == <<>>

Some(x) == <<x>>

\* ast.get_docstring of the root: None, "", " ", "d ".
RootDocs == {None, Some(<<>>), Some(<<" ">>), Some(<<"d", " ">>)}

\* The class and docstring of a node below the root; "Other" is any node
\* that is no declaration (a statement, an expression, an argument list).
NodeDocs == {None, Some(<<" ">>), Some(<<"d", " ">>)}

NodeChoices ==
    {[kind |-> k, doc |-> d] :
        k \in {"ClassDef", "FunctionDef", "AsyncFunctionDef"}, d \in NodeDocs}
    \cup {[kind |-> "Other", doc |-> None]}

RECURSIVE Anc(_, _)
\* Node i and its ancestors.
Anc(t, i) == IF i = 0 THEN {} ELSE {i} \cup Anc(t, t[i].parent)

Depth(t, i) == Cardinality(Anc(t, i)) - 1

Descendants(t, i) == {j \in 1..Len(t) : j # i /\ i \in Anc(t, j)}

\* The shapes of a tree of n nodes: the parent of each node, a node on the
\* path from its predecessor to the root.
RECURSIVE ShapesOfSize(_)
ShapesOfSize(n) ==
    IF n = 1 THEN {<<0>>}
    ELSE UNION {{Append(sh, p) : p \in Anc([i \in 1..(n - 1) |-> [parent |-> sh[i]]], n - 1)} :
                sh \in ShapesOfSize(n - 1)}

\* The tree of shape sh whose root has docstring d and whose node i > 1 has
\* the class and docstring cs[i].
MkTree(sh, d, cs) ==
    [i \in 1..Len(sh) |->
        IF i = 1 THEN [parent |-> 0, kind |-> "Module", doc |-> d]
        ELSE [parent |-> sh[i], kind |-> cs[i].kind, doc |-> cs[i].doc]]

\* A source file as parse_file meets it: err is "decode" when the detected
\* encoding cannot decode the bytes, "syntax" when ast.parse rejects the
\* text, else "none" and nodes is the tree; has_end tells whether the tree's
\* nodes carry end_lineno (Python 3.8 and later).
Source(err, nodes, has_end) ==
    [err |-> err, nodes |-> nodes, has_end |-> has_end]

BadSources == {Source("decode", <<>>, TRUE), Source("syntax", <<>>, TRUE)}

\* p_src is a file that fails to decode or to parse, or a tree of at most
\* MaxNodes nodes.
IsSource(src) ==
    \/ src \in BadSources
    \/ \E n \in 1..MaxNodes : \E sh \in ShapesOfSize(n) : \E d \in RootDocs :
         \E cs \in [2..n -> NodeChoices] : \E e \in BOOLEAN :
            src = Source("none", MkTree(sh, d, cs), e)

\* content.splitlines(): line j of a parsed file, named by its number.
splitlines(src) == [j \in 1..(Len(src.nodes) - 1) |-> j]

Idents == <<"n1", "n2", "n3", "n4", "n5", "n6", "n7", "n8">>

\* getattr(node, 'name', 'Module')
node_name(t, i) ==
    IF t[i].kind \in {"ClassDef", "FunctionDef", "AsyncFunctionDef"}
    THEN Idents[i] ELSE "Module"

has_lineno(t, i) == t[i].kind # "Module"

lineno(t, i) == i - 1

end_lineno(t, i) == i - 1 + Cardinality(Descendants(t, i))

\* ast.iter_child_nodes: the children in source order.
RECURSIVE ChildrenFrom(_, _, _)
ChildrenFrom(t, i, j) ==
    IF j > Len(t) THEN <<>>
    ELSE (IF t[j].parent = i THEN <<j>> ELSE <<>>) \o ChildrenFrom(t, i, j + 1)

iter_child_nodes(t, i) == ChildrenFrom(t, i, i + 1)

\* A walk that puts a node's children in front of the pending nodes:
\* pre-order, which ast.walk is not.
RECURSIVE walk_depth_first(_, _, _)
walk_depth_first(t, todo, out) ==
    IF todo = <<>> THEN out
    ELSE walk_depth_first(t, iter_child_nodes(t, Head(todo)) \o Tail(todo),
                          Append(out, Head(todo)))

\* ast.walk: todo = deque([node]); popleft, extend with the children, yield.
RECURSIVE walk_queue(_, _, _)
walk_queue(t, todo, out) ==
    IF todo = <<>> THEN out
    ELSE walk_queue(t, Tail(todo) \o iter_child_nodes(t, Head(todo)),
                    Append(out, Head(todo)))

ast_walk_preorder(t) == walk_depth_first(t, <<1>>, <<>>)

ast_walk(t) == walk_queue(t, <<1>>, <<>>)

\* ------------------------------------------------------------ paths
\* A file path: the directory names below project_path and the file name.
Path(dir, name) == [dir |-> dir, name |-> name]

\* os.path.join(root, file)
path_join(root, file) == Path(root, file)

\* os.path.basename(file_path)
basename(file_path) == file_path.name

\* os.path.basename(file_path).replace('.py', '')
file_name_key(file_path) == remove_all(basename(file_path), DotPy)

\* ------------------------------------------------------------ parse_file
\* extract_docstring: None for a node that is no declaration or whose
\* docstring is missing or empty, else the docstring stripped.
extract_docstring(t, i) ==
    IF t[i].kind \notin DeclKinds THEN None
    ELSE IF t[i].doc # None /\ t[i].doc[1] # <<>>
         THEN Some(strip(t[i].doc[1]))
         ELSE None

\* Python's truth of an optional string: neither None nor "".
truthy(d) == d # None /\ d[1] # <<>>

\* Lines 44-46: content.splitlines()[start_line:end_line], the lines the
\* record's code joins with newlines.
function_code(src, i) ==
    LET start_line == lineno(src.nodes, i) - 1
        end_line == IF src.has_end THEN end_lineno(src.nodes, i)
                    ELSE start_line
    IN  Slice(splitlines(src), start_line, end_line)

DocRecord(file_path, src, i, docstring) ==
    [type |-> src.nodes[i].kind,
     name |-> node_name(src.nodes, i),
     docstring |-> docstring,
     file |-> file_path,
     fileName |-> file_name_key(file_path),
     code |-> function_code(src, i)]

\* What one call returns: the list, the nodes the loop reached, and the
\* exception the try block caught ("none" when it ran to its return).
ParseResult(ret, visited, exc) ==
    [ret |-> ret, visited |-> visited, exc |-> exc]

\* The loop of lines 37-57 from the k-th node of ast.walk on.  Reading
\* node.lineno of a Module node raises AttributeError, which the
\* `except Exception` clause turns into an empty list.
RECURSIVE parse_loop(_, _, _, _, _)
parse_loop(file_path, src, order, k, docstrings) ==
    IF k > Len(order) THEN ParseResult(docstrings, order, "none")
    ELSE LET node == order[k]
             docstring == extract_docstring(src.nodes, node)
         IN  IF truthy(docstring)
             THEN IF ~has_lineno(src.nodes, node)
                  THEN ParseResult(<<>>, SubSeq(order, 1, k), "Exception")
                  ELSE parse_loop(file_path, src, order, k + 1,
                           Append(docstrings,
                               DocRecord(file_path, src, node, docstring[1])))
             ELSE parse_loop(file_path, src, order, k + 1, docstrings)

\* parse_file: the try block of lines 30-58 and its three except clauses.
parse_file(file_path, src) ==
    IF src.err = "decode" THEN ParseResult(<<>>, <<>>, "UnicodeDecodeError")
    ELSE IF src.err = "syntax" THEN ParseResult(<<>>, <<>>, "SyntaxError")
    ELSE parse_loop(file_path, src, ast_walk(src.nodes), 1, <<>>)


\* ------------------------------------------------------------ generate_html
\* The dict `files` as its items in insertion order.
dict_keys(files) == [a \in 1..Len(files) |-> files[a].file_name]

\* group_add with a new key put in front of the older ones.
group_add_newest_first(files, doc) ==
    IF doc.fileName \notin Range(dict_keys(files))
    THEN <<[file_name |-> doc.fileName, docs |-> <<doc>>]>> \o files
    ELSE [a \in 1..Len(files) |->
            IF files[a].file_name = doc.fileName
            THEN [files[a] EXCEPT !.docs = Append(@, doc)]
            ELSE files[a]]

\* Lines 177-180: one round of the grouping loop.
group_add(files, doc) ==
    IF doc.fileName \notin Range(dict_keys(files))
    THEN Append(files, [file_name |-> doc.fileName, docs |-> <<doc>>])
    ELSE [a \in 1..Len(files) |->
            IF files[a].file_name = doc.fileName
            THEN [files[a] EXCEPT !.docs = Append(@, doc)]
            ELSE files[a]]

\* Lines 175-180: files = {} and the loop over docstrings.
RECURSIVE group_by_file(_, _)
group_by_file(files, docstrings) ==
    IF docstrings = <<>> THEN files
    ELSE group_by_file(group_add(files, Head(docstrings)), Tail(docstrings))

\* Lines 183-196: one sidebar entry per item of files, one link per record.
sidebar_of(files) ==
    [a \in 1..Len(files) |->
        [file_name |-> files[a].file_name,
         links |-> [k \in 1..Len(files[a].docs) |-> files[a].docs[k].name]]]

\* Lines 204-226: one content block per record, in the order of docstrings.
content_of(docstrings) ==
    [k \in 1..Len(docstrings) |->
        [id |-> docstrings[k].name,
         file |-> docstrings[k].file,
         keyword |-> IF docstrings[k].type = "AsyncFunctionDef"
                     THEN "async def" ELSE "def",
         doc |-> docstrings[k].docstring,
         code |-> docstrings[k].code]]

\* The page generate_html builds from docstrings.
generate_html(docstrings) ==
    LET files == group_by_file(<<>>, docstrings)
    IN  [files |-> files,
         sidebar |-> sidebar_of(files),
         content |-> content_of(docstrings)]

\* ------------------------------------------------------------ SpecParse
NoResult == ParseResult(<<>>, <<>>, "none")

NoPage == [files |-> <<>>, sidebar |-> <<>>, content |-> <<>>]

APy == <<"a", ".", "p", "y">>

ParseIdle ==
    /\ p_path = Path(<<>>, APy) /\ p_src = Source("syntax", <<>>, TRUE)
    /\ p_pc = "idle" /\ p_out = NoResult

HtmlIdle == h_docs = <<>> /\ h_pc = "idle" /\ h_page = NoPage

ProjIdle ==
    /\ fs = {} /\ walk = <<>> /\ walked = <<>> /\ cur_root = <<>>
    /\ cur_files = <<>> /\ all_docstrings = <<>> /\ skipped_files = <<>>
    /\ parsed = <<>> /\ renders = <<>> /\ reported = <<>> /\ pc = "idle"

InitParse ==
    /\ p_path = Path(<<>>, APy)
    /\ IsSource(p_src)
    /\ p_pc = "call"
    /\ p_out = NoResult
    /\ HtmlIdle /\ ProjIdle

\* One call parse_file(p_path) on a file whose content is p_src.
ParseFile ==
    /\ p_pc = "call"
    /\ p_out' = parse_file(p_path, p_src)
    /\ p_pc' = "returned"
    /\ UNCHANGED <<p_path, p_src, htmlVars, projVars>>

NextParse == ParseFile

SpecParse == InitParse /\ [][NextParse]_vars


\* ------------------------------------------------------------ claims on parse_file
Returned == p_pc = "returned" /\ p_src.err = "none"

\* The declarations of tree t with a docstring that is non-empty once trimmed.
Documented(t) ==
    {i \in 1..Len(t) : /\ t[i].kind \in DeclKinds
                       /\ t[i].doc # None
                       /\ strip(t[i].doc[1]) # <<>>}

\* The records of list ret made for node i of tree t.
RecordsOf(t, ret, i) ==
    {k \in 1..Len(ret) : ret[k].type = t[i].kind /\ ret[k].name = node_name(t, i)}

\* The node a record was made for.
NodeOf(t, r) ==
    CHOOSE i \in 1..Len(t) : t[i].kind = r.type /\ node_name(t, i) = r.name

\* C1: the list parse_file returns holds exactly one record for each
\* Module, Class, Function or AsyncFunction declaration whose docstring is
\* non-empty after trimming, and none for any other node.
C1_OneRecordPerDocumentedDeclaration ==
    Returned =>
        LET t == p_src.nodes
            ret == p_out.ret
        IN  /\ \A i \in Documented(t) : Cardinality(RecordsOf(t, ret, i)) = 1
            /\ Len(ret) = Cardinality(Documented(t))

\* C4: a file whose Module node has a non-empty docstring gets a record of
\* type Module named "Module".
C4_ModuleRecord ==
    (Returned /\ 1 \in Documented(p_src.nodes)) =>
        \E k \in 1..Len(p_out.ret) :
            p_out.ret[k].type = "Module" /\ p_out.ret[k].name = "Module"

\* Node a comes before node b in level order: it is less deep, or as deep and
\* earlier in the source.
LevelBefore(t, a, b) ==
    \/ Depth(t, a) < Depth(t, b)
    \/ Depth(t, a) = Depth(t, b) /\ a < b

C10_SnippetSpan ==
    Returned =>
        \A k \in 1..Len(p_out.ret) :
            LET t == p_src.nodes
                i == NodeOf(t, p_out.ret[k])
                last == IF p_src.has_end THEN end_lineno(t, i) ELSE lineno(t, i)
            IN  p_out.ret[k].code = SubSeq(splitlines(p_src), lineno(t, i), last)


\* ------------------------------------------------------------ SpecHtml
HtmlRecords ==
    {[type |-> ty, name |-> n, docstring |-> <<"d">>,
      file |-> Path(<<>>, k \o DotPy), fileName |-> k, code |-> <<1>>] :
        ty \in {"FunctionDef", "AsyncFunctionDef"},
        n \in {"n2", "n3"},
        k \in {<<"a">>, <<"b">>}}

InitHtml ==
    /\ \E n \in 0..MaxDocs : h_docs \in [1..n -> HtmlRecords]
    /\ h_pc = "call"
    /\ h_page = NoPage
    /\ ParseIdle /\ ProjIdle

\* One call generate_html(h_docs, output_file).
GenerateHtml ==
    /\ h_pc = "call"
    /\ h_page' = generate_html(h_docs)
    /\ h_pc' = "written"
    /\ UNCHANGED <<h_docs, parseVars, projVars>>

NextHtml == GenerateHtml

SpecHtml == InitHtml /\ [][NextHtml]_vars

\* The place of the first record of list docs whose fileKey is key.
FirstIndex(docs, key) ==
    CHOOSE k \in 1..Len(docs) :
        /\ docs[k].fileName = key
        /\ \A j \in 1..(k - 1) : docs[j].fileName # key

\* The records of list docs whose fileKey is key, in the order of docs.
WithKey(docs, key) ==
    LET Test(d) == d.fileName = key IN SelectSeq(docs, Test)

\* C6: the sidebar has one entry per fileKey, in the order in which the
\* fileKeys first occur in the record list; an entry lists the records of its
\* fileKey, all of them, in the order of the list, so that every record is in
\* exactly one entry exactly once.
C6_SidebarGrouping ==
    h_pc = "written" =>
        LET files == h_page.files
            side == h_page.sidebar
        IN  /\ Range(dict_keys(files)) = {h_docs[k].fileName : k \in 1..Len(h_docs)}
            /\ \A a, b \in 1..Len(files) :
                   a < b => FirstIndex(h_docs, files[a].file_name)
                              < FirstIndex(h_docs, files[b].file_name)
            /\ \A a \in 1..Len(files) :
                   files[a].docs = WithKey(h_docs, files[a].file_name)
            /\ Len(side) = Len(files)
            /\ \A a \in 1..Len(side) :
                   /\ side[a].file_name = files[a].file_name
                   /\ side[a].links =
                        [k \in 1..Len(files[a].docs) |-> files[a].docs[k].name]

\* Three records, the first and the third of one file and the second of
\* another: two sidebar entries, the first with two links.
C6_Witness ==
    /\ h_pc = "written"
    /\ Len(h_docs) = 3
    /\ h_docs[1].fileName = h_docs[3].fileName
    /\ h_docs[1].fileName # h_docs[2].fileName
    /\ Len(h_page.sidebar) = 2
    /\ Len(h_page.sidebar[1].links) = 2


\* ------------------------------------------------------------ process_project
\* The directories process_project takes out of os.walk's dirs, in the
\* order of lines 265-270.
Excluded == <<"venv", ".git", "__pycache__">>

\* list.remove(name) guarded by `name in dirs`.
RECURSIVE remove_if_in(_, _)
remove_if_in(dirs, name) ==
    IF dirs = <<>> THEN <<>>
    ELSE IF Head(dirs) = name THEN Tail(dirs)
    ELSE <<Head(dirs)>> \o remove_if_in(Tail(dirs), name)

\* prune with the removals of .git and __pycache__ left out.
prune_venv_only(dirs) == remove_if_in(dirs, Excluded[1])

\* Lines 265-270: dirs after the three removals.
prune(dirs) ==
    remove_if_in(remove_if_in(remove_if_in(dirs, Excluded[1]), Excluded[2]),
                 Excluded[3])

\* collect with the else of line 278 lost: every file is listed as skipped.
collect_skips_every_file(all, skipped, file_path, docstrings) ==
    [all |-> all \o docstrings, skipped |-> Append(skipped, file_path)]

\* collect with the new records put in front of the old ones.
collect_newest_first(all, skipped, file_path, docstrings) ==
    IF docstrings # <<>>
    THEN [all |-> docstrings \o all, skipped |-> skipped]
    ELSE [all |-> all, skipped |-> Append(skipped, file_path)]

\* Lines 276-279: the two lists after one file's records came back.
collect(all, skipped, file_path, docstrings) ==
    IF docstrings # <<>>
    THEN [all |-> all \o docstrings, skipped |-> skipped]
    ELSE [all |-> all, skipped |-> Append(skipped, file_path)]

\* The orders in which a directory listing may give the members of set S.
Perms(S) == {s \in [1..Cardinality(S) -> S] : Range(s) = S}

\* os.scandir(top): the names of the directories and of the files in top.
subdirs_of(files, top) ==
    {f.dir[Len(top) + 1] :
        f \in {g \in files : Len(g.dir) > Len(top)
                             /\ SubSeq(g.dir, 1, Len(top)) = top}}

files_of(files, top) == {f.name : f \in {g \in files : g.dir = top}}

\* ------------------------------------------------------------ Spec
APyPy == <<"a", ".", "p", "y", ".", "p", "y">>

ATxt == <<"a", ".", "t">>

CandidateDirs ==
    {<<>>, <<"pkg">>, <<"venv">>, <<".git">>, <<"__pycache__">>,
     <<"pkg", "venv">>, <<"venv", "lib">>}

CandidateNames == {APy, APyPy, ATxt}

CandidatePaths == {Path(d, n) : d \in CandidateDirs, n \in CandidateNames}

RECURSIVE SubsetsUpTo(_, _)
SubsetsUpTo(S, k) ==
    IF k = 0 THEN {{}}
    ELSE LET smaller == SubsetsUpTo(S, k - 1)
         IN  smaller \cup {P \cup {x} : P \in smaller, x \in S}

FunctionNode(parent, doc) ==
    [parent |-> parent, kind |-> "FunctionDef", doc |-> doc]

ModuleNode(doc) == [parent |-> 0, kind |-> "Module", doc |-> doc]

\* The contents a file of the project may have: undecodable, unparsable,
\* nothing documented, one documented function, a module docstring and a
\* documented function, a documented class with a documented method.
ProjectSources ==
    BadSources \cup
    {Source("none", <<ModuleNode(None), FunctionNode(1, None)>>, TRUE),
     Source("none", <<ModuleNode(None), FunctionNode(1, Some(<<"d", " ">>))>>, TRUE),
     Source("none", <<ModuleNode(Some(<<"d", " ">>)),
                      FunctionNode(1, Some(<<"d", " ">>))>>, TRUE),
     Source("none", <<ModuleNode(None),
                      [parent |-> 1, kind |-> "ClassDef", doc |-> Some(<<"d", " ">>)],
                      FunctionNode(2, Some(<<"d", " ">>))>>, TRUE)}

Init ==
    /\ fs \in SubsetsUpTo(CandidatePaths, MaxFiles)
    /\ walk = <<<<>>>>
    /\ walked = <<>>
    /\ cur_root = <<>>
    /\ cur_files = <<>>
    /\ all_docstrings = <<>>
    /\ skipped_files = <<>>
    /\ parsed = <<>>
    /\ renders = <<>>
    /\ reported = <<>>
    /\ pc = "walk"
    /\ ParseIdle /\ HtmlIdle

\* Line 263 and lines 265-270: os.walk yields its next directory, with the
\* names in it in the order the listing gives them, and the loop body takes
\* the excluded names out of dirs; os.walk then descends into what is left
\* of dirs, in order, before any directory it had pending.
WalkDir ==
    /\ pc = "walk" /\ cur_files = <<>> /\ walk # <<>>
    /\ LET top == Head(walk)
       IN  \E dirs \in Perms(subdirs_of(fs, top)) :
           \E files \in Perms(files_of(fs, top)) :
              /\ walk' = [k \in 1..Len(prune(dirs)) |-> Append(top, prune(dirs)[k])]
                         \o Tail(walk)
              /\ walked' = Append(walked, top)
              /\ cur_root' = top
              /\ cur_files' = files
    /\ UNCHANGED <<fs, all_docstrings, skipped_files, parsed, renders,
                   reported, pc, parseVars, htmlVars>>

\* Lines 272-279: one round of the loop over files; the file's content is
\* what parse_file finds when it opens it.
VisitFile ==
    /\ pc = "walk" /\ cur_files # <<>>
    /\ LET file == Head(cur_files)
           file_path == path_join(cur_root, file)
       IN  IF endswith(file, DotPy)
           THEN \E src \in ProjectSources :
                   LET out == parse_file(file_path, src)
                       lists == collect(all_docstrings, skipped_files,
                                        file_path, out.ret)
                   IN  /\ all_docstrings' = lists.all
                       /\ skipped_files' = lists.skipped
                       /\ parsed' = Append(parsed,
                              [path |-> file_path, src |-> src, out |-> out])
           ELSE UNCHANGED <<all_docstrings, skipped_files, parsed>>
    /\ cur_files' = Tail(cur_files)
    /\ UNCHANGED <<fs, walk, walked, cur_root, renders, reported, pc,
                   parseVars, htmlVars>>

\* Render with line 281 indented into the os.walk loop: generate_html runs
\* after each directory.
RenderInsideLoop ==
    /\ pc = "walk" /\ cur_files = <<>> /\ Len(renders) < 2
    /\ \E written \in BOOLEAN :
          /\ renders' = Append(renders,
                [docs |-> all_docstrings, page |-> generate_html(all_docstrings)])
          /\ pc' = IF walk # <<>> THEN "walk"
                   ELSE IF written THEN "report" ELSE "failed"
    /\ UNCHANGED <<fs, walk, walked, cur_root, cur_files, all_docstrings,
                   skipped_files, parsed, reported, parseVars, htmlVars>>

\* Line 281, after the os.walk loop has ended: generate_html builds the page
\* and writes it; a failure to write the output file ends the run.
Render ==
    /\ pc = "walk" /\ cur_files = <<>> /\ walk = <<>>
    /\ \E written \in BOOLEAN :
          /\ renders' = Append(renders,
                [docs |-> all_docstrings, page |-> generate_html(all_docstrings)])
          /\ pc' = IF written THEN "report" ELSE "failed"
    /\ UNCHANGED <<fs, walk, walked, cur_root, cur_files, all_docstrings,
                   skipped_files, parsed, reported, parseVars, htmlVars>>

\* Lines 284-287: the skipped files are printed, when there are any.
Report ==
    /\ pc = "report"
    /\ reported' = IF skipped_files # <<>> THEN Append(reported, skipped_files)
                   ELSE reported
    /\ pc' = "done"
    /\ UNCHANGED <<fs, walk, walked, cur_root, cur_files, all_docstrings,
                   skipped_files, parsed, renders, parseVars, htmlVars>>

Next == WalkDir \/ VisitFile \/ Render \/ Report

Spec == Init /\ [][Next]_vars


\* ------------------------------------------------------------ claims on process_project
UnderExcluded(f) == \E k \in 1..Len(f.dir) : f.dir[k] \in Range(Excluded)

\* The files of the project process_project is to hand to parse_file.
Eligible == {f \in fs : endswith(f.name, DotPy) /\ ~UnderExcluded(f)}

ParsedPaths == [k \in 1..Len(parsed) |-> parsed[k].path]

ParsedRecords == Flatten([k \in 1..Len(parsed) |-> parsed[k].out.ret])

Occurrences(s, x) == Cardinality({k \in 1..Len(s) : s[k] = x})

WalkOver == pc # "walk"

\* C2: a file whose processing fails gives no record and is in the skipped
\* list; a file is in the skipped list, once, exactly when it gave no record,
\* and otherwise all its records are appended; the walk goes on, so that
\* once it is over every eligible file has been processed.
C2_FailedOrEmptyFileSkipped ==
    /\ \A k \in 1..Len(parsed) :
          LET e == parsed[k]
          IN  /\ (e.src.err # "none" \/ e.out.exc # "none") =>
                     /\ e.out.ret = <<>>
                     /\ e.path \in Range(skipped_files)
              /\ Occurrences(skipped_files, e.path) =
                     (IF e.out.ret = <<>> THEN 1 ELSE 0)
    /\ Range(skipped_files) \subseteq Range(ParsedPaths)
    /\ all_docstrings = ParsedRecords
    /\ WalkOver => Eligible \subseteq Range(ParsedPaths)

\* A file that fails to parse, then a file with two records: the first is
\* skipped, the second's records are all there.
C2_Witness ==
    /\ pc = "done"
    /\ Len(parsed) = 2
    /\ parsed[1].out.exc = "SyntaxError"
    /\ Len(parsed[2].out.ret) = 2
    /\ skipped_files = <<parsed[1].path>>
    /\ all_docstrings = parsed[2].out.ret

\* C3: no file under a directory named venv, .git or __pycache__, at any
\* depth below the project directory, is handed to parse_file, and os.walk
\* yields no such directory; every file ending in .py that is under none is
\* handed to parse_file exactly once.
C3_ExcludedDirsNeverVisited ==
    /\ \A k \in 1..Len(parsed) :
          /\ parsed[k].path \in Eligible
          /\ Occurrences(ParsedPaths, parsed[k].path) = 1
    /\ \A k \in 1..Len(walked) :
          \A j \in 1..Len(walked[k]) : walked[k][j] \notin Range(Excluded)
    /\ \A k \in 1..Len(all_docstrings) : ~UnderExcluded(all_docstrings[k].file)
    /\ \A k \in 1..Len(skipped_files) : ~UnderExcluded(skipped_files[k])
    /\ WalkOver => Range(ParsedPaths) = Eligible

\* The project holds a.py, pkg/venv/a.py and venv/lib/a.py: the run is over
\* and only a.py was handed to parse_file.
C3_Witness ==
    /\ pc = "done"
    /\ fs = {Path(<<>>, APy), Path(<<"pkg", "venv">>, APy),
             Path(<<"venv", "lib">>, APy)}
    /\ ParsedPaths = <<Path(<<>>, APy)>>

\* C5: all_docstrings only grows at its end, and it is at every point the
\* records of the files visited so far, file after file in the order of the
\* visits, each file's records in the order parse_file returned them.
C5_AppendOnlyInVisitOrder ==
    /\ [][IsPrefix(all_docstrings, all_docstrings')]_vars
    /\ [](all_docstrings = ParsedRecords)

\* Two files with records have been visited, the first with two records.
C5_Witness ==
    /\ Len(parsed) = 2
    /\ Len(parsed[1].out.ret) = 2
    /\ Len(parsed[2].out.ret) = 1
    /\ all_docstrings = parsed[1].out.ret \o parsed[2].out.ret
    /\ parsed[1].path # parsed[2].path

\* C7: generate_html is called once, after the walk has handed every
\* eligible file to parse_file, with the complete all_docstrings; the
\* skipped-file list is printed after that call only, at most once, never
\* during the walk, and it is the complete list.
C7_RenderOnceAfterWalk ==
    /\ Len(renders) <= 1
    /\ Len(reported) <= 1
    /\ ~WalkOver => renders = <<>> /\ reported = <<>>
    /\ WalkOver => Len(renders) = 1
    /\ renders # <<>> =>
          /\ Range(ParsedPaths) = Eligible
          /\ renders[1].docs = all_docstrings
          /\ all_docstrings = ParsedRecords
    /\ reported # <<>> => pc = "done" /\ reported[1] = skipped_files
    /\ (pc = "done" /\ skipped_files # <<>>) => reported = <<skipped_files>>

\* The run is over: one call of generate_html with records of two files, and
\* one printed list naming the skipped file.
C7_Witness ==
    /\ pc = "done"
    /\ Len(parsed) = 3
    /\ Len(renders) = 1
    /\ Len(renders[1].docs) = 3
    /\ Len(skipped_files) = 1
    /\ reported = <<skipped_files>>

\* The name without its trailing .py.
strip_suffix(name) ==
    IF endswith(name, DotPy) THEN SubSeq(name, 1, Len(name) - Len(DotPy))
    ELSE name

\* C8: a record's fileKey is the basename of its path without the trailing
\* .py, also for a name that holds .py elsewhere.
C8_FileKeyStripsSuffix ==
    \A k \in 1..Len(all_docstrings) :
        all_docstrings[k].fileName = strip_suffix(basename(all_docstrings[k].file))


====
